---------------------------- MODULE Spec2Model ----------------------------
(***************************************************************************)
(* A model of src/src/tools.py (class Tools): the raster utilities          *)
(* merge_files, country_crop, regions_crop, translate_julian_dates,         *)
(* plot_nc_file and calculate_daily_mean_per_municipality.                  *)
(*                                                                         *)
(* One call of one method runs at a time (the code is single-threaded and  *)
(* the methods share no state but the filesystem).  `op` names the method  *)
(* being run, `args` its arguments, `loc` its local variables, `pc` its    *)
(* position, `disk` the input directory (file name -> content),            *)
(* `outFile` the file at the output path, `ret` how the call ended and     *)
(* `log` what it printed.                                                  *)
(*                                                                         *)
(* File names are sequences of one-character strings, so that the          *)
(* formatting and parsing of names (zfill, splitext, isdigit, strptime,    *)
(* strftime) is computed and not assumed.                                  *)
(***************************************************************************)
EXTENDS Integers, Sequences, FiniteSets, TLC

VARIABLES op, args, loc, pc, disk, outFile, ret, log

vars == <<op, args, loc, pc, disk, outFile, ret, log>>

(***************************************************************************)
(* Bounds of the model.                                                    *)
(***************************************************************************)
\* merge_files: start and end dates range over MaxSpan + 1 consecutive days
MaxSpan == 3
\* translate_julian_dates: entries in the directory
MaxEntries == 3
\* country_crop: rows and columns of the grid
MaxLat == 2
MaxLon == 3
\* regions_crop / calculate_daily_mean_per_municipality: records of the layer
MaxRecords == 2
\* time steps of the dataset read by the municipality averager
MaxTime == 2

(***************************************************************************)
(* Values shared by the operations.                                        *)
(***************************************************************************)
NoFile == [kind |-> "absent"]
OldFile == [kind |-> "old"]
\* float('nan'): a value no cell of an input grid holds
NaN == -1

Running == [kind |-> "running"]
Returned(v) == [kind |-> "return", value |-> v]
Raised(e) == [kind |-> "raise", error |-> e]
None == "None"

(***************************************************************************)
(* Text: str(int), zfill, int(str), isdigit.                               *)
(***************************************************************************)
DigitChars == <<"0", "1", "2", "3", "4", "5", "6", "7", "8", "9">>

IsDigitChar(c) == \E i \in 1..10 : DigitChars[i] = c

DigitVal(c) == (CHOOSE i \in 1..10 : DigitChars[i] = c) - 1

\* str.isdigit(): non-empty and every character a digit
IsDigit(s) == Len(s) > 0 /\ \A i \in 1..Len(s) : IsDigitChar(s[i])

\* int(s) of a digit string
RECURSIVE ParseInt(_)
ParseInt(s) ==
  IF Len(s) = 0 THEN 0
  ELSE 10 * ParseInt(SubSeq(s, 1, Len(s) - 1)) + DigitVal(s[Len(s)])

\* str(n) / f'{n}' of a natural number: decimal, no padding
RECURSIVE Str(_)
Str(n) ==
  IF n < 10 THEN <<DigitChars[n + 1]>>
  ELSE Str(n \div 10) \o <<DigitChars[(n % 10) + 1]>>

\* s.zfill(w), and the padding of f'{n:03}'
RECURSIVE ZFill(_, _)
ZFill(s, w) == IF Len(s) >= w THEN s ELSE ZFill(<<"0">> \o s, w)

(***************************************************************************)
(* The calendar (proleptic Gregorian, as datetime and pandas use).         *)
(***************************************************************************)
IsLeap(y) == (y % 4 = 0 /\ y % 100 # 0) \/ y % 400 = 0

DaysInMonth(y, m) ==
  IF m = 2 THEN (IF IsLeap(y) THEN 29 ELSE 28)
  ELSE IF m \in {4, 6, 9, 11} THEN 30 ELSE 31

DaysInYear(y) == IF IsLeap(y) THEN 366 ELSE 365

\* days of year y before the first of month m
RECURSIVE DaysBeforeMonth(_, _)
DaysBeforeMonth(y, m) ==
  IF m = 1 THEN 0 ELSE DaysBeforeMonth(y, m - 1) + DaysInMonth(y, m - 1)

Date(y, m, d) == [year |-> y, month |-> m, day |-> d]

DateLT(a, b) ==
  \/ a.year < b.year
  \/ a.year = b.year /\ a.month < b.month
  \/ a.year = b.year /\ a.month = b.month /\ a.day < b.day

DateLE(a, b) == a = b \/ DateLT(a, b)

\* date + timedelta(days=1)
NextDay(a) ==
  IF a.day < DaysInMonth(a.year, a.month) THEN Date(a.year, a.month, a.day + 1)
  ELSE IF a.month < 12 THEN Date(a.year, a.month + 1, 1)
  ELSE Date(a.year + 1, 1, 1)

\* date - timedelta(days=1)
PrevDay(a) ==
  IF a.day > 1 THEN Date(a.year, a.month, a.day - 1)
  ELSE IF a.month > 1
    THEN Date(a.year, a.month - 1, DaysInMonth(a.year, a.month - 1))
  ELSE Date(a.year - 1, 12, 31)

\* pd.date_range(start=a, end=b): every day from a to b, both included
RECURSIVE DateRange(_, _)
DateRange(a, b) ==
  IF DateLE(a, b) THEN <<a>> \o DateRange(NextDay(a), b) ELSE <<>>

(***************************************************************************)
(* merge_files                                                             *)
(***************************************************************************)
NC == <<"n", "c">>
TIF == <<"t", "i", "f">>
CSV == <<"c", "s", "v">>

FileTypes == {NC, TIF, CSV}

FirstDate == Date(2024, 2, 28)

\* the MaxSpan + 1 consecutive days from FirstDate on
RECURSIVE DaysFrom(_, _)
DaysFrom(a, n) == IF n = 0 THEN {a} ELSE {a} \cup DaysFrom(NextDay(a), n - 1)

Window == DaysFrom(FirstDate, MaxSpan)

\* f'{data_folder}{year}-{month}-{day}.{file_type}', the folder left out:
\* the names are those of the entries of `disk`
MergeFilenameNoPad(date, file_type) ==
  Str(date.year) \o <<"-">> \o Str(date.month) \o <<"-">> \o Str(date.day)
    \o <<".">> \o file_type

MergeFilename(date, file_type) ==
  Str(date.year) \o <<"-">> \o ZFill(Str(date.month), 2) \o <<"-">>
    \o ZFill(Str(date.day), 2) \o <<".">> \o file_type

\* xr.open_dataset(filename) / rasterio.open(filename): the dataset of one
\* day, holding the file's content under the file's variable name ('tif':
\* under variable_name)
OpenDay(filename, file_type) ==
  [source |-> disk[filename],
   variable |-> IF file_type = TIF THEN args.variable_name
                ELSE args.nc_variable]

\* the directories that merge_files is run on: per-day files of one extension
MergeDisks ==
  { [f \in {MergeFilename(d, e) : d \in S} |-> f] : S \in SUBSET Window, e \in FileTypes }

InitMerge ==
  /\ op = "merge_files"
  /\ args \in [start_date : Window, end_date : Window, file_type : FileTypes,
               units : {"mm"}, variable_name : {"data"},
               nc_variable : {"data", "precip"}]
  /\ disk \in MergeDisks
  /\ outFile \in {NoFile, OldFile}
  /\ loc = [date_range |-> <<>>, i |-> 1, datasets |-> <<>>, times |-> <<>>]
  /\ pc = "call"
  /\ ret = Running
  /\ log = <<>>

\* line 141-145
MergeBegin ==
  /\ op = "merge_files" /\ pc = "call"
  /\ loc' = [loc EXCEPT !.date_range = DateRange(args.start_date, PrevDay(args.end_date))]
  /\ pc' = "for"
  /\ UNCHANGED <<op, args, disk, outFile, ret, log>>

\* os.path.exists(filename)
Exists(filename) == filename \in DOMAIN disk

\* file_type == 'nc' (line 157) or file_type == 'tif' (line 162)
SupportedAny(file_type) == TRUE

Supported(file_type) == file_type = NC \/ file_type = TIF

\* one iteration of the loop of line 147
MergeVisit ==
  /\ op = "merge_files" /\ pc = "for" /\ loc.i <= Len(loc.date_range)
  /\ LET date == loc.date_range[loc.i]
         filename == MergeFilename(date, args.file_type)
     IN IF Exists(filename)
        THEN IF Supported(args.file_type)
             THEN /\ loc' = [loc EXCEPT
                               !.datasets = Append(@, OpenDay(filename, args.file_type)),
                               !.times = Append(@, date),
                               !.i = @ + 1]
                  /\ UNCHANGED <<pc, ret, log>>
             ELSE /\ log' = Append(log, <<"Unsupported file type", args.file_type>>)
                  /\ ret' = Returned(None)
                  /\ pc' = "done"
                  /\ UNCHANGED loc
        ELSE /\ log' = Append(log, <<"File not found", filename>>)
             /\ loc' = [loc EXCEPT !.i = @ + 1]
             /\ UNCHANGED <<pc, ret>>
  /\ UNCHANGED <<op, args, disk, outFile>>

\* combined_ds['time'] = times
MergeTimeCoord(times) == times

\* MergeConcat with an empty list of datasets handled by a plain return
MergeConcatEmptyReturns ==
  /\ op = "merge_files" /\ pc = "for" /\ loc.i > Len(loc.date_range)
  /\ ret' = Returned(None)
  /\ pc' = "done"
  /\ UNCHANGED <<op, args, loc, disk, outFile, log>>

\* lines 186-190: xr.concat raises ValueError on an empty list; the units are
\* set on combined_ds[variable_name], a KeyError when no such variable
MergeConcat ==
  /\ op = "merge_files" /\ pc = "for" /\ loc.i > Len(loc.date_range)
  /\ IF loc.datasets = <<>>
     THEN /\ ret' = Raised("ValueError")
          /\ pc' = "done"
          /\ UNCHANGED loc
     ELSE IF \E k \in 1..Len(loc.datasets) : loc.datasets[k].variable # args.variable_name
     THEN /\ ret' = Raised("KeyError")
          /\ pc' = "done"
          /\ UNCHANGED loc
     ELSE /\ loc' = [date_range |-> loc.date_range, i |-> loc.i,
                     datasets |-> loc.datasets, times |-> loc.times,
                     combined_ds |->
                       [kind |-> "netcdf",
                        time |-> MergeTimeCoord(loc.times),
                        slices |-> [k \in 1..Len(loc.datasets) |-> loc.datasets[k].source],
                        units |-> args.units]]
          /\ pc' = "to_netcdf"
          /\ UNCHANGED ret
  /\ UNCHANGED <<op, args, disk, outFile, log>>

\* lines 193-198
MergeWrite ==
  /\ op = "merge_files" /\ pc = "to_netcdf"
  /\ outFile' = loc.combined_ds
  /\ log' = Append(log, <<"combined_ds">>)
  /\ ret' = Returned(None)
  /\ pc' = "done"
  /\ UNCHANGED <<op, args, loc, disk>>

NextMerge == MergeBegin \/ MergeVisit \/ MergeConcat \/ MergeWrite

SpecMerge == InitMerge /\ [][NextMerge]_vars

(***************************************************************************)
(* merge_files: the claims.                                                *)
(***************************************************************************)
\* the decimal digit of n at place p (1, 10, 100, ...)
DigitAt(n, p) == DigitChars[((n \div p) % 10) + 1]

\* the name `YYYY-MM-DD.ext` of a day, digit by digit
IsoName(d, ext) ==
  <<DigitAt(d.year, 1000), DigitAt(d.year, 100), DigitAt(d.year, 10), DigitAt(d.year, 1),
    "-", DigitAt(d.month, 10), DigitAt(d.month, 1),
    "-", DigitAt(d.day, 10), DigitAt(d.day, 1), ".">> \o ext

\* the days d with start <= d < end whose per-day file is on disk
DaysFound ==
  {d \in Window : /\ DateLE(args.start_date, d) /\ DateLT(d, args.end_date)
                  /\ IsoName(d, args.file_type) \in DOMAIN disk}

MergeWritten == op = "merge_files" /\ outFile.kind = "netcdf"

\* the file type of the call is one of the two supported
SupportedType == args.file_type \in {NC, TIF}

\* C1: with a supported file type, the time coordinate of the written
\* dataset is the ascending, duplicate-free sequence of the days d with
\* start <= d < end whose file YYYY-MM-DD.file_type exists, and slice k of
\* the dataset is the content of the file of day k.
C1_TimeCoordinate ==
  (MergeWritten /\ SupportedType) =>
     /\ {outFile.time[k] : k \in 1..Len(outFile.time)} = DaysFound
     /\ \A k \in 1..(Len(outFile.time) - 1) : DateLT(outFile.time[k], outFile.time[k + 1])
     /\ Len(outFile.slices) = Len(outFile.time)
     /\ \A k \in 1..Len(outFile.time) :
          outFile.slices[k] = disk[IsoName(outFile.time[k], args.file_type)]

\* a 3-day range over the end of February whose second day has no file
C1_Witness ==
  /\ MergeWritten /\ pc = "done"
  /\ args.start_date = Date(2024, 2, 28) /\ args.end_date = Date(2024, 3, 2)
  /\ IsoName(Date(2024, 3, 2), args.file_type) \in DOMAIN disk
  /\ outFile.time = <<Date(2024, 2, 28), Date(2024, 3, 1)>>

\* C2: with a file type other than 'nc' and 'tif', no step of the call
\* creates or overwrites the output file.
C2_NoOutputWhenUnsupported ==
  [][(op = "merge_files" /\ ~SupportedType) => outFile' = outFile]_vars

\* an unsupported type with a file of that extension in the range, the call
\* over and the old output file still in place
C2_Witness ==
  /\ op = "merge_files" /\ pc = "done" /\ args.file_type = CSV
  /\ outFile = OldFile
  /\ DaysFound # {}

\* C3: with an unrecognized file type the call ends by a return, never by a
\* raised error, having logged the unsupported type.
C3_SilentReturn ==
  (op = "merge_files" /\ pc = "done" /\ ~SupportedType) =>
     /\ ret = Returned(None)
     /\ \E k \in 1..Len(log) : log[k] = <<"Unsupported file type", args.file_type>>

\* C9: with a supported file type and no per-day file in the range, the call
\* does not return: it ends with the error of the empty concatenation, and
\* the output file is never written.
C9_EmptyMergeRaises ==
  (op = "merge_files" /\ SupportedType /\ DaysFound = {}) =>
     /\ outFile \in {NoFile, OldFile}
     /\ pc # "to_netcdf"
     /\ pc = "done" => ret = Raised("ValueError")

\* a range of three days, none of which has a file
C9_Witness ==
  /\ op = "merge_files" /\ pc = "done" /\ args.file_type = NC
  /\ DaysFound = {} /\ Len(loc.date_range) = 3
  /\ ret = Raised("ValueError")

(***************************************************************************)
(* country_crop                                                            *)
(*                                                                         *)
(* A grid is a rectangle of cells <<lat, lon>>; the data file and the mask *)
(* file hold the same coordinates.                                         *)
(***************************************************************************)
Cells(lats, lons) == lats \X lons

\* the value the data file holds at a cell
CropData(seed, c) == seed + 10 * c[1] + c[2]

InitCrop ==
  /\ op = "country_crop"
  /\ \E nlat \in 1..MaxLat, nlon \in 1..MaxLon, seed \in {0, 100} :
       \E mask \in [Cells(1..nlat, 1..nlon) -> {0, 1}] :
          args = [file_to_be_cropped |->
                    [lat |-> 1..nlat, lon |-> 1..nlon,
                     values |-> [c \in Cells(1..nlat, 1..nlon) |-> CropData(seed, c)]],
                  mask_file |-> [lat |-> 1..nlat, lon |-> 1..nlon, mask |-> mask]]
  /\ disk = <<>>
  /\ outFile \in {NoFile, OldFile}
  /\ loc = [step |-> "none"]
  /\ pc = "call"
  /\ ret = Running
  /\ log = <<>>

\* Dataset.where(cond) without drop: every label is kept
WhereNoDrop(ds, cond) ==
  [lat |-> ds.lat, lon |-> ds.lon,
   values |-> [c \in Cells(ds.lat, ds.lon) |-> IF cond[c] THEN ds.values[c] ELSE NaN]]

\* Dataset.where(cond, drop=True): a label of a dimension is kept when cond
\* holds somewhere along it; of the cells left, those where cond fails
\* become not-a-number
WhereDrop(ds, cond) ==
  LET lats == {i \in ds.lat : \E j \in ds.lon : cond[<<i, j>>]}
      lons == {j \in ds.lon : \E i \in ds.lat : cond[<<i, j>>]}
  IN [lat |-> lats, lon |-> lons,
      values |-> [c \in Cells(lats, lons) |-> IF cond[c] THEN ds.values[c] ELSE NaN]]

\* lines 69-71
CropOpen ==
  /\ op = "country_crop" /\ pc = "call"
  /\ loc' = [step |-> "opened", ds |-> args.file_to_be_cropped, ds_mask |-> args.mask_file]
  /\ pc' = "where"
  /\ UNCHANGED <<op, args, disk, outFile, ret, log>>

\* line 74
CropWhere ==
  /\ op = "country_crop" /\ pc = "where"
  /\ loc' = [step |-> "masked", ds |-> loc.ds, ds_mask |-> loc.ds_mask,
             ds_global_honduras |->
               WhereDrop(loc.ds, [c \in Cells(loc.ds_mask.lat, loc.ds_mask.lon) |->
                                    loc.ds_mask.mask[c] = 1])]
  /\ pc' = "to_netcdf"
  /\ UNCHANGED <<op, args, disk, outFile, ret, log>>

\* lines 75-77
CropWrite ==
  /\ op = "country_crop" /\ pc = "to_netcdf"
  /\ outFile' = [kind |-> "netcdf", ds |-> loc.ds_global_honduras]
  /\ ret' = Returned(None)
  /\ pc' = "done"
  /\ UNCHANGED <<op, args, loc, disk, log>>

NextCrop == CropOpen \/ CropWhere \/ CropWrite

SpecCrop == InitCrop /\ [][NextCrop]_vars

(***************************************************************************)
(* country_crop: the claims.                                               *)
(***************************************************************************)
CropWritten == op = "country_crop" /\ outFile.kind = "netcdf"

MaskCells == Cells(args.mask_file.lat, args.mask_file.lon)

ZeroCells == {c \in MaskCells : args.mask_file.mask[c] = 0}

\* the written dataset holds the coordinate of cell c
CropHolds(c) == c[1] \in outFile.ds.lat /\ c[2] \in outFile.ds.lon

OneZeroCell == Cardinality(ZeroCells) = 1

\* C4 as stated: with exactly one cell of the mask 0 and all others 1, the
\* written dataset does not contain the coordinate of the 0 cell and
\* contains every coordinate at which the mask is 1.
C4_ZeroCellAbsent ==
  (CropWritten /\ OneZeroCell) =>
     /\ \A c \in ZeroCells : ~CropHolds(c)
     /\ \A c \in MaskCells \ ZeroCells : CropHolds(c)

\* C4 amended: with exactly one cell of the mask 0 and all others 1, the
\* written dataset contains every coordinate at which the mask is 1, with
\* the value of the data file; the coordinate of the 0 cell is absent
\* only when the grid has a single row or a single column, and otherwise
\* it is present and holds not-a-number.
C4_ZeroCellMasked ==
  (CropWritten /\ OneZeroCell) =>
     /\ \A c \in MaskCells \ ZeroCells :
          CropHolds(c) /\ outFile.ds.values[c] = args.file_to_be_cropped.values[c]
     /\ \A c \in ZeroCells :
          /\ CropHolds(c) <=>
               (Cardinality(args.mask_file.lat) > 1 /\ Cardinality(args.mask_file.lon) > 1)
          /\ CropHolds(c) => outFile.ds.values[c] = NaN

\* a 2 x 2 grid whose cell <<1, 2>> is the only 0 of the mask
C4_Witness ==
  /\ CropWritten /\ pc = "done"
  /\ args.mask_file.lat = 1..2 /\ args.mask_file.lon = 1..2
  /\ ZeroCells = {<<1, 2>>}
  /\ outFile.ds.values[<<1, 2>>] = NaN
  /\ outFile.ds.values[<<1, 1>>] = args.file_to_be_cropped.values[<<1, 1>>]

(***************************************************************************)
(* regions_crop                                                            *)
(*                                                                         *)
(* The grid is a set of cells; the geometry of a record of the vector      *)
(* layer is the set of cells that rio.clip finds inside its polygon.       *)
(***************************************************************************)
RegionGrid == {1, 2, 3}

RegionNames == {"Norte", "Sur"}

\* the value of the first data variable at a cell; at most one cell holds
\* not-a-number already
RegionData(nan_cell) == [c \in RegionGrid |-> IF c = nan_cell THEN NaN ELSE 10 + c]

RegionLayers ==
  UNION {[1..n -> [name : RegionNames, geometry : SUBSET RegionGrid]] : n \in 0..MaxRecords}

InitRegions ==
  /\ op = "regions_crop"
  /\ \E nan_cell \in {0} \cup RegionGrid, regions \in RegionLayers :
       args = [file_to_be_cropped |-> RegionData(nan_cell), shapefile |-> regions,
               output_file |-> "out.nc", name_column |-> "name"]
  /\ disk = <<>>
  /\ outFile \in {NoFile, OldFile}
  /\ loc = [step |-> "none"]
  /\ pc = "call"
  /\ ret = Running
  /\ log = <<>>

\* lines 82-110
RegionsOpen ==
  /\ op = "regions_crop" /\ pc = "call"
  /\ loc' = [step |-> "opened", ds |-> args.file_to_be_cropped, regions |-> args.shapefile,
             idx |-> 1, clipped_datasets |-> <<>>, region_names |-> <<>>]
  /\ log' = Append(log, <<"ds">>)
  /\ pc' = "for"
  /\ UNCHANGED <<op, args, disk, outFile, ret>>

\* ds.rio.clip(geometry, drop=False): not-a-number outside the geometry
RioClip(ds, geometry) == [c \in DOMAIN ds |-> IF c \in geometry THEN ds[c] ELSE NaN]

\* mask[data_var].notnull().astype(int)
NotNull(ds) == [c \in DOMAIN ds |-> IF ds[c] # NaN THEN 1 ELSE 0]

\* xr.where(mask, ds[data_var], float('nan')) with its branches exchanged
RegionMaskedInverted(ds, geometry) ==
  LET mask == NotNull(RioClip(ds, geometry))
  IN [c \in DOMAIN ds |-> IF mask[c] # 0 THEN NaN ELSE ds[c]]

\* lines 117-124: the grid of one region
RegionMasked(ds, geometry) ==
  LET mask == NotNull(RioClip(ds, geometry))
  IN [c \in DOMAIN ds |-> IF mask[c] # 0 THEN ds[c] ELSE NaN]

\* one iteration of the loop of line 113
RegionsClip ==
  /\ op = "regions_crop" /\ pc = "for" /\ loc.idx <= Len(loc.regions)
  /\ LET region == loc.regions[loc.idx]
     IN loc' = [loc EXCEPT
                  !.clipped_datasets = Append(@, RegionMasked(loc.ds, region.geometry)),
                  !.region_names = Append(@, region[args.name_column]),
                  !.idx = @ + 1]
  /\ UNCHANGED <<op, args, pc, disk, outFile, ret, log>>

\* lines 131-132: xr.concat raises ValueError on an empty list
RegionsConcat ==
  /\ op = "regions_crop" /\ pc = "for" /\ loc.idx > Len(loc.regions)
  /\ IF loc.clipped_datasets = <<>>
     THEN /\ ret' = Raised("ValueError")
          /\ pc' = "done"
          /\ UNCHANGED loc
     ELSE /\ loc' = [step |-> "combined", ds |-> loc.ds, regions |-> loc.regions,
                     idx |-> loc.idx, clipped_datasets |-> loc.clipped_datasets,
                     region_names |-> loc.region_names,
                     combined_ds |-> [region |-> loc.region_names,
                                      slices |-> loc.clipped_datasets]]
          /\ pc' = "to_netcdf"
          /\ UNCHANGED ret
  /\ UNCHANGED <<op, args, disk, outFile, log>>

\* lines 135-137
RegionsWrite ==
  /\ op = "regions_crop" /\ pc = "to_netcdf"
  /\ outFile' = [kind |-> "netcdf", ds |-> loc.combined_ds]
  /\ ret' = Returned(args.output_file)
  /\ pc' = "done"
  /\ UNCHANGED <<op, args, loc, disk, log>>

NextRegions == RegionsOpen \/ RegionsClip \/ RegionsConcat \/ RegionsWrite

SpecRegions == InitRegions /\ [][NextRegions]_vars

(***************************************************************************)
(* regions_crop: the claims.                                               *)
(***************************************************************************)
RegionsWritten == op = "regions_crop" /\ outFile.kind = "netcdf"

\* C5: the 'region' dimension of the output has one slice per record of the
\* layer, its labels are the values of the name column in the order of the
\* records, a cell outside every polygon is not-a-number in every slice, and
\* a cell inside the polygon of a record keeps its value in the slice of
\* that record.
C5_RegionStack ==
  RegionsWritten =>
    LET regions == args.shapefile
        out == outFile.ds
    IN /\ Len(out.slices) = Len(regions)
       /\ out.region = [k \in 1..Len(regions) |-> regions[k].name]
       /\ \A c \in RegionGrid :
            (\A k \in 1..Len(regions) : c \notin regions[k].geometry) =>
               \A k \in 1..Len(out.slices) : out.slices[k][c] = NaN
       /\ \A k \in 1..Len(regions) : \A c \in regions[k].geometry :
            out.slices[k][c] = args.file_to_be_cropped[c]

\* two records with different names, a cell inside the first polygon only,
\* holding a number, and a cell outside both
C5_Witness ==
  /\ RegionsWritten /\ pc = "done"
  /\ Len(args.shapefile) = 2
  /\ args.shapefile[1].name = "Sur" /\ args.shapefile[2].name = "Norte"
  /\ args.shapefile[1].geometry = {1} /\ args.shapefile[2].geometry = {2}
  /\ args.file_to_be_cropped[1] # NaN
  /\ outFile.ds.slices[1][1] = args.file_to_be_cropped[1]
  /\ outFile.ds.slices[2][1] = NaN
  /\ outFile.ds.slices[1][3] = NaN /\ outFile.ds.slices[2][3] = NaN

(***************************************************************************)
(* translate_julian_dates                                                  *)
(***************************************************************************)
TXT == <<"t", "x", "t">>

\* the entries a directory may hold: Julian names, ISO names, other names
JulianNames ==
  { Str(2024099) \o <<".">> \o TIF,
    MergeFilename(Date(2024, 4, 8), TIF),
    Str(2024060) \o <<".">> \o NC,
    Str(2023366) \o <<".">> \o TIF,
    Str(2024000) \o <<".">> \o TIF,
    <<"0">> \o Str(999005) \o <<".">> \o TIF,
    Str(20240991) \o <<".">> \o TIF,
    Str(2024099),
    <<"r", "e", "a", "d", "m", "e", ".">> \o TXT }

\* a directory: each entry holds the content it had under its first name
JulianDisks ==
  { [f \in S |-> f] : S \in {T \in SUBSET JulianNames : Cardinality(T) <= MaxEntries} }

InitJulian ==
  /\ op = "translate_julian_dates"
  /\ args = [directorio |-> "dir"]
  /\ disk \in JulianDisks
  /\ outFile = NoFile
  /\ loc = [archivos |-> <<>>, i |-> 1, nuevos_nombres |-> <<>>]
  /\ pc = "call"
  /\ ret = Running
  /\ log = <<>>

\* os.listdir(directorio): the entries, in an arbitrary order
ListDir == {l \in [1..Cardinality(DOMAIN disk) -> DOMAIN disk] :
              \A a, b \in DOMAIN l : a # b => l[a] # l[b]}

\* lines 204-207
JulianList ==
  /\ op = "translate_julian_dates" /\ pc = "call"
  /\ \E archivos \in ListDir :
       loc' = [archivos |-> archivos, i |-> 1, nuevos_nombres |-> <<>>]
  /\ pc' = "for"
  /\ UNCHANGED <<op, args, disk, outFile, ret, log>>

\* os.path.splitext(archivo): split at the last dot, unless only dots
\* come before it
SplitExt(archivo) ==
  LET dots == {k \in 1..Len(archivo) : archivo[k] = "."}
      last == CHOOSE k \in dots : \A j \in dots : j <= k
  IN IF dots # {} /\ \E k \in 1..(last - 1) : archivo[k] # "."
     THEN [nombre |-> SubSeq(archivo, 1, last - 1),
           extension |-> SubSeq(archivo, last, Len(archivo))]
     ELSE [nombre |-> archivo, extension |-> <<>>]

\* the characters of the day-of-year that %j takes from the text left after
\* the four digits of %Y: the regular expression
\* 36[0-6]|3[0-5]\d|[1-2]\d\d|0[1-9]\d|00[1-9]|[1-9]\d|0[1-9]|[1-9]
JulianMatchLen(rest) ==
  IF Len(rest) >= 3 /\ ParseInt(SubSeq(rest, 1, 3)) \in 1..366 THEN 3
  ELSE IF Len(rest) >= 2 /\ ParseInt(SubSeq(rest, 1, 2)) \in 1..99 THEN 2
  ELSE IF Len(rest) >= 1 /\ ParseInt(SubSeq(rest, 1, 1)) \in 1..9 THEN 1
  ELSE 0

ValueError == [error |-> "ValueError"]

\* date.fromordinal((julian - 1) + date(year, 1, 1).toordinal()): the day
\* after the last of a year of 365 days is the first of the next year
FromOrdinal(year, julian) ==
  IF year < 1 THEN ValueError
  ELSE IF julian <= DaysInYear(year)
  THEN LET m == CHOOSE k \in 1..12 :
                  /\ DaysBeforeMonth(year, k) < julian
                  /\ julian <= DaysBeforeMonth(year, k) + DaysInMonth(year, k)
       IN Date(year, m, julian - DaysBeforeMonth(year, m))
  ELSE IF year < 9999 THEN Date(year + 1, 1, julian - DaysInYear(year))
  ELSE ValueError

\* datetime.strptime(text, '%Y%j'): four digits of year, then the day of the
\* year, and nothing left over
Strptime(text) ==
  IF Len(text) < 4 THEN ValueError
  ELSE LET rest == SubSeq(text, 5, Len(text))
           n == JulianMatchLen(rest)
       IN IF n = 0 \/ n # Len(rest) THEN ValueError
          ELSE FromOrdinal(ParseInt(SubSeq(text, 1, 4)), ParseInt(rest))

\* strftime('%Y-%m-%d')
Strftime(date) ==
  Str(date.year) \o <<"-">> \o ZFill(Str(date.month), 2) \o <<"-">>
    \o ZFill(Str(date.day), 2)

\* os.rename(src, dst) on POSIX: an existing dst is replaced silently
Rename(src, dst) ==
  [f \in (DOMAIN disk \ {src}) \cup {dst} |-> IF f = dst THEN disk[src] ELSE disk[f]]

\* one iteration of the loop of line 210
JulianVisit ==
  /\ op = "translate_julian_dates" /\ pc = "for" /\ loc.i <= Len(loc.archivos)
  /\ LET archivo == loc.archivos[loc.i]
         parts == SplitExt(archivo)
         nombre == parts.nombre
         extension == parts.extension
         anio == ParseInt(SubSeq(nombre, 1, 4))
         dia_juliano == ParseInt(SubSeq(nombre, 5, Len(nombre)))
         fecha == Strptime(Str(anio) \o ZFill(Str(dia_juliano), 3))
         nuevo_nombre == Strftime(fecha) \o extension
     IN IF Len(nombre) = 7 /\ IsDigit(nombre)
        THEN IF fecha = ValueError
             THEN /\ ret' = Raised("ValueError")
                  /\ pc' = "done"
                  /\ UNCHANGED <<loc, disk>>
             ELSE /\ loc' = [loc EXCEPT !.nuevos_nombres = Append(@, nuevo_nombre),
                                        !.i = @ + 1]
                  /\ disk' = Rename(archivo, nuevo_nombre)
                  /\ UNCHANGED <<pc, ret>>
        ELSE /\ loc' = [loc EXCEPT !.nuevos_nombres = Append(@, archivo), !.i = @ + 1]
             /\ UNCHANGED <<pc, ret, disk>>
  /\ UNCHANGED <<op, args, outFile, log>>

\* line 232
JulianReturn ==
  /\ op = "translate_julian_dates" /\ pc = "for" /\ loc.i > Len(loc.archivos)
  /\ ret' = Returned(loc.nuevos_nombres)
  /\ pc' = "done"
  /\ UNCHANGED <<op, args, loc, disk, outFile, log>>

NextJulian == JulianList \/ JulianVisit \/ JulianReturn

SpecJulian == InitJulian /\ [][NextJulian]_vars

(***************************************************************************)
(* translate_julian_dates: the claims.                                     *)
(***************************************************************************)
\* the base name of an entry is exactly 7 digits: 7 digits, and then either
\* nothing or the extension (one dot, the last of the name)
SevenDigits(a) ==
  /\ Len(a) >= 7
  /\ \A k \in 1..7 : IsDigitChar(a[k])
  /\ Len(a) > 7 => (a[8] = "." /\ \A k \in 9..Len(a) : a[k] # ".")

JulianYear(a) == 1000 * DigitVal(a[1]) + 100 * DigitVal(a[2]) + 10 * DigitVal(a[3]) + DigitVal(a[4])

JulianDay(a) == 100 * DigitVal(a[5]) + 10 * DigitVal(a[6]) + DigitVal(a[7])

\* the 7 digits name a day that exists
NamesADay(a) == JulianYear(a) >= 1 /\ JulianDay(a) \in 1..DaysInYear(JulianYear(a))

\* YYYY-MM-DD of the day of the 7 digits, and the extension of the entry
IsoOfJulian(a) ==
  LET y == JulianYear(a)
      n == JulianDay(a)
      m == CHOOSE k \in 1..12 : DaysBeforeMonth(y, k) < n /\ n <= DaysBeforeMonth(y, k + 1)
  IN IsoName(Date(y, m, n - DaysBeforeMonth(y, m)), SubSeq(a, 9, Len(a)))

IsoEntryOf(a) == IF Len(a) > 7 THEN IsoOfJulian(a) ELSE SubSeq(IsoOfJulian(a), 1, 10)

JulianDone == op = "translate_julian_dates" /\ pc = "done"

\* C6: each entry whose base name is exactly 7 digits is renamed on disk to
\* the ISO date of its year (first 4 digits) and day of the year (last 3
\* digits) plus its extension, and the new name is in the returned list at
\* the position of the entry; every other entry is returned unchanged and
\* keeps its name on disk.  Read for the listings whose 7-digit entries all
\* name a day that exists.
C6_JulianRenamed ==
  (JulianDone /\ \A k \in 1..Len(loc.archivos) :
                    SevenDigits(loc.archivos[k]) => NamesADay(loc.archivos[k])) =>
     /\ ret.kind = "return"
     /\ Len(ret.value) = Len(loc.archivos)
     /\ \A k \in 1..Len(loc.archivos) :
          LET a == loc.archivos[k]
          IN IF SevenDigits(a)
             THEN /\ ret.value[k] = IsoEntryOf(a)
                  /\ a \notin DOMAIN disk
                  /\ IsoEntryOf(a) \in DOMAIN disk /\ disk[IsoEntryOf(a)] = a
             ELSE ret.value[k] = a /\ a \in DOMAIN disk

\* C10: the directory holds as many entries after the call as before it, and
\* the returned list has no duplicate and holds the names of the directory
\* after the call.
C10_NoEntryLost ==
  /\ (op = "translate_julian_dates" /\ pc # "call") =>
        Cardinality(DOMAIN disk) = Len(loc.archivos)
  /\ (JulianDone /\ ret.kind = "return") =>
        /\ \A j, k \in 1..Len(ret.value) : j # k => ret.value[j] # ret.value[k]
        /\ {ret.value[k] : k \in 1..Len(ret.value)} = DOMAIN disk

(***************************************************************************)
(* plot_nc_file and calculate_daily_mean_per_municipality                  *)
(*                                                                         *)
(* A dataset holds data variables over (time, lat, lon); the coordinates   *)
(* of lat and lon are increasing sequences.  A mean is the pair of a sum   *)
(* and a count.                                                            *)
(***************************************************************************)
LatAxis == <<10, 13>>
LonAxis == <<0, 3, 7>>

DataVars == {"ET0", "precipitation"}

\* the value of a data variable at time t, row i, column j
GridValue(t, i, j) == 7 * t * t + 10 * i + j

Datasets ==
  [vars : (SUBSET DataVars) \ {{}}, ntime : 1..MaxTime, units : {"mm/day", "absent"}]

\* centroids of the polygons of the municipality layer: on cells, between
\* cells (nearer to one, or at equal distance of two), outside of the grid
Centroids == {<<0, 10>>, <<1, 11>>, <<2, 12>>, <<5, 12>>, <<8, 14>>, <<-1, 9>>}

MunicipalityLayers ==
  UNION {[1..n -> [NAME_1 : {"Olancho"}, NAME_2 : {"Catacamas", "Juticalpa"},
                   centroid : Centroids]] : n \in 0..MaxRecords}

InitTable ==
  /\ \/ /\ op = "plot_nc_file"
        /\ \E ds \in Datasets, v \in DataVars :
             args = [file_path |-> ds, variable_name |-> v, save_path |-> "figures/"]
     \/ /\ op = "calculate_daily_mean_per_municipality"
        /\ \E ds \in Datasets, v \in DataVars, layer \in MunicipalityLayers :
             args = [shapefile_path |-> layer, netcdf_file |-> ds, variable_name |-> v,
                     region_column |-> "NAME_1", municipality_column |-> "NAME_2",
                     units |-> "mm/day"]
  /\ disk = <<>>
  /\ outFile \in {NoFile, OldFile}
  /\ loc = [step |-> "none"]
  /\ pc = "call"
  /\ ret = Running
  /\ log = <<>>

\* variable_name in dataset
HasVariableAlways(dataset, variable_name) == TRUE

HasVariable(dataset, variable_name) == variable_name \in dataset.vars

RECURSIVE SumOver(_, _)
\* the sum of f over the finite set S
SumOver(f, S) ==
  IF S = {} THEN 0
  ELSE LET x == CHOOSE y \in S : TRUE IN f[x] + SumOver(f, S \ {x})

\* line 29
PlotOpen ==
  /\ op = "plot_nc_file" /\ pc = "call"
  /\ loc' = [step |-> "opened", dataset |-> args.file_path]
  /\ pc' = "check"
  /\ UNCHANGED <<op, args, disk, outFile, ret, log>>

\* lines 32-33
PlotCheck ==
  /\ op = "plot_nc_file" /\ pc = "check"
  /\ IF ~HasVariable(loc.dataset, args.variable_name)
     THEN ret' = Raised("ValueError") /\ pc' = "done"
     ELSE ret' = ret /\ pc' = "plot"
  /\ UNCHANGED <<op, args, loc, disk, outFile, log>>

\* lines 36-61: per time step, the mean over lat and lon (sum and count) and
\* the sum of squares the standard deviation is computed from
PlotRender ==
  /\ op = "plot_nc_file" /\ pc = "plot"
  /\ LET cells == (1..Len(LatAxis)) \X (1..Len(LonAxis))
         units == IF loc.dataset.units = "absent" THEN "unidades" ELSE loc.dataset.units
     IN loc' = [step |-> "plotted", dataset |-> loc.dataset,
                figure |->
                  [time |-> [t \in 1..loc.dataset.ntime |-> t],
                   daily_mean |-> [t \in 1..loc.dataset.ntime |->
                      [sum |-> SumOver([c \in cells |-> GridValue(t, c[1], c[2])], cells),
                       n |-> Cardinality(cells)]],
                   squares |-> [t \in 1..loc.dataset.ntime |->
                      SumOver([c \in cells |-> GridValue(t, c[1], c[2]) * GridValue(t, c[1], c[2])],
                              cells)],
                   ylabel |-> <<args.variable_name, units>>]]
  /\ pc' = "savefig"
  /\ UNCHANGED <<op, args, disk, outFile, ret, log>>

\* lines 64-65
PlotSave ==
  /\ op = "plot_nc_file" /\ pc = "savefig"
  /\ outFile' = [kind |-> "image", path |-> <<args.save_path, args.variable_name>>,
                 figure |-> loc.figure]
  /\ ret' = Returned(None)
  /\ pc' = "done"
  /\ UNCHANGED <<op, args, loc, disk, log>>

\* lines 248-251
MuniOpen ==
  /\ op = "calculate_daily_mean_per_municipality" /\ pc = "call"
  /\ loc' = [step |-> "opened", municipalities |-> args.shapefile_path,
             dataset |-> args.netcdf_file, index |-> 1, results |-> <<>>]
  /\ pc' = "check"
  /\ UNCHANGED <<op, args, disk, outFile, ret, log>>

\* lines 254-262
MuniCheck ==
  /\ op = "calculate_daily_mean_per_municipality" /\ pc = "check"
  /\ IF ~HasVariable(loc.dataset, args.variable_name)
     THEN ret' = Raised("ValueError") /\ pc' = "done"
     ELSE ret' = ret /\ pc' = "for"
  /\ UNCHANGED <<op, args, loc, disk, outFile, log>>

\* .sel(..., method='pad'): the last coordinate not above x (the first when
\* there is none)
PadIndex(axis, x) ==
  LET below == {k \in 1..Len(axis) : axis[k] <= x}
  IN IF below = {} THEN 1 ELSE CHOOSE k \in below : \A j \in below : j <= k

\* .sel(..., method='nearest') along one dimension: of the coordinate below
\* x and the one above, the closer, the one above when they are as close
NearestIndex(axis, x) ==
  LET below == {k \in 1..Len(axis) : axis[k] <= x}
      above == {k \in 1..Len(axis) : axis[k] >= x}
      left == CHOOSE k \in below : \A j \in below : j <= k
      right == CHOOSE k \in above : \A j \in above : k <= j
  IN IF above = {} THEN left
     ELSE IF below = {} THEN right
     ELSE IF x - axis[left] < axis[right] - x THEN left ELSE right

\* variable_data.mean(dim='time') at row i and column j
TimeMean(dataset, i, j) ==
  [sum |-> SumOver([t \in 1..dataset.ntime |-> GridValue(t, i, j)], 1..dataset.ntime),
   n |-> dataset.ntime]

\* one iteration of the loop of line 265
MuniVisit ==
  /\ op = "calculate_daily_mean_per_municipality" /\ pc = "for"
  /\ loc.index <= Len(loc.municipalities)
  /\ LET municipality == loc.municipalities[loc.index]
         j == NearestIndex(LonAxis, municipality.centroid[1])
         i == NearestIndex(LatAxis, municipality.centroid[2])
         daily_mean == TimeMean(loc.dataset, i, j)
     IN loc' = [loc EXCEPT
                  !.results = Append(@, [region |-> municipality[args.region_column],
                                         municipio |-> municipality[args.municipality_column],
                                         promedio |-> daily_mean,
                                         column |-> <<args.variable_name, args.units>>]),
                  !.index = @ + 1]
  /\ UNCHANGED <<op, args, pc, disk, outFile, ret, log>>

\* lines 283-285
MuniReturn ==
  /\ op = "calculate_daily_mean_per_municipality" /\ pc = "for"
  /\ loc.index > Len(loc.municipalities)
  /\ ret' = Returned(loc.results)
  /\ pc' = "done"
  /\ UNCHANGED <<op, args, loc, disk, outFile, log>>

NextTable ==
  \/ PlotOpen \/ PlotCheck \/ PlotRender \/ PlotSave
  \/ MuniOpen \/ MuniCheck \/ MuniVisit \/ MuniReturn

SpecTable == InitTable /\ [][NextTable]_vars

(***************************************************************************)
(* plot_nc_file and calculate_daily_mean_per_municipality: the claims.     *)
(***************************************************************************)
VariableAbsent ==
  \/ op = "plot_nc_file" /\ args.variable_name \notin args.file_path.vars
  \/ /\ op = "calculate_daily_mean_per_municipality"
     /\ args.variable_name \notin args.netcdf_file.vars

\* C7: when the requested variable is absent from the dataset, the call
\* raises the validation error before any output: the plotter writes no
\* image and the municipality averager builds and returns no row.
C7_ValidationFirst ==
  VariableAbsent =>
     /\ outFile \in {NoFile, OldFile}
     /\ ret.kind # "return"
     /\ pc \in {"call", "check", "done"}
     /\ pc = "done" => ret = Raised("ValueError")
     /\ (op = "calculate_daily_mean_per_municipality" /\ pc # "call") => loc.results = <<>>

\* the averager, run on a layer of two records for a variable the dataset
\* does not hold, has raised
C7_Witness ==
  /\ op = "calculate_daily_mean_per_municipality" /\ pc = "done"
  /\ VariableAbsent /\ Len(args.shapefile_path) = 2
  /\ ret = Raised("ValueError")

\* |a - b|
Dist(a, b) == IF a < b THEN b - a ELSE a - b

\* the indices of the coordinates of an axis nearest to x
Nearest(axis, x) ==
  {k \in 1..Len(axis) : \A j \in 1..Len(axis) : Dist(axis[k], x) <= Dist(axis[j], x)}

\* C8: when the variable is present, the returned table has one row per
\* record of the layer, in the order of the layer, and row k holds the
\* region label and the municipality label of record k and the mean over
\* time of the variable at the grid cell nearest to the centroid of record k.
C8_MunicipalityTable ==
  (op = "calculate_daily_mean_per_municipality" /\ pc = "done" /\ ~VariableAbsent) =>
     /\ ret.kind = "return"
     /\ Len(ret.value) = Len(args.shapefile_path)
     /\ \A k \in 1..Len(args.shapefile_path) :
          LET rec == args.shapefile_path[k]
              row == ret.value[k]
          IN /\ row.region = rec.NAME_1
             /\ row.municipio = rec.NAME_2
             /\ row.column = <<args.variable_name, args.units>>
             /\ row.promedio.n = args.netcdf_file.ntime
             /\ \E i \in Nearest(LatAxis, rec.centroid[2]), j \in Nearest(LonAxis, rec.centroid[1]) :
                  row.promedio.sum =
                    SumOver([t \in 1..args.netcdf_file.ntime |-> GridValue(t, i, j)],
                            1..args.netcdf_file.ntime)

\* a table of two rows, the first for a centroid midway between the second
\* and the third column and nearer to the last row, over two time steps
C8_Witness ==
  /\ op = "calculate_daily_mean_per_municipality" /\ pc = "done" /\ ret.kind = "return"
  /\ Len(ret.value) = 2
  /\ args.shapefile_path[1].centroid = <<5, 12>>
  /\ args.shapefile_path[1].NAME_2 = "Juticalpa" /\ args.shapefile_path[2].NAME_2 = "Catacamas"
  /\ args.netcdf_file.ntime = 2
  /\ ret.value[1].promedio = [sum |-> 7 + 28 + 2 * (10 * 2 + 3), n |-> 2]
  /\ ret.value[2].municipio = "Catacamas"

(***************************************************************************)
(* Any one call of any of the methods.                                     *)
(***************************************************************************)
Init == InitMerge \/ InitCrop \/ InitRegions \/ InitJulian \/ InitTable

Next == NextMerge \/ NextCrop \/ NextRegions \/ NextJulian \/ NextTable

Spec == Init /\ [][Next]_vars

=============================================================================
